---- MODULE Spec2Model ----
(***************************************************************************)
(* A model of k8s-portforward-conn: the Forwarder (request-identifier      *)
(* allocation and the stream-open protocol of Forward) and the FwdConn     *)
(* adapter (Read / Write / Close / deadlines and the error watcher).       *)
(***************************************************************************)
EXTENDS Integers, Sequences, FiniteSets, TLC

\* ------------------------------------------------------------------ bounds
\* Forward calls that may be in flight at once in SpecFwd.
NumCalls == 2
\* Chunks the remote side may write on the error stream before it ends.
MaxErrLen == 1
\* Times the remote side writes its reply on the data stream, and times the
\* caller's Write reaches the data stream.
MaxData == 1
\* The clock runs from 0 to MaxNow.
MaxNow == 2

\* ------------------------------------------------------- program constants
\* reqID is an atomic.Int32: its largest and smallest values.
MaxInt32 == 2147483647
MinInt32 == -MaxInt32 - 1

Calls == 1..NumCalls
Forwarders == {"fw1", "fw2"}
Threads == {"t1", "t2"}
Ports == {"80", "8080"}

\* Values the counter of a Forwarder may hold when the model starts: a
\* Forwarder fresh from NewForwarder (0), or one that has already served
\* MaxInt32 - 1 Forward calls.
StartIDs == {0, MaxInt32 - 1}

VARIABLES
  reqID0,    \* [Forwarders -> Int]: the counter's value when the model starts
  reqID,     \* [Forwarders -> Int]: Forwarder.reqID
  pc,        \* [Calls -> STRING]: position of each Forward call
  fwOf,      \* [Calls -> Forwarders]: the receiver of each Forward call
  port,      \* [Calls -> STRING]: the port argument
  nextID,    \* [Calls -> Int]: the local `next`
  allocSeq,  \* sequence of <<forwarder, id>>: allocations in the order made
  ferr,      \* [Calls -> STRING]: the error Forward returned ("" for none)
  ppc,       \* [Calls -> STRING]: position of a package-level Forward call
  fwd,       \* [Calls -> Calls]: FwdConn.fwd, the connection the call dialed;
             \* a connection bears the number of the call whose dial made it
  sess,      \* [Calls -> STRING]: state of each httpstream.Connection
  sessLog,   \* [Calls -> Seq(record)]: calls made on the connection, in order
  idleTimeout, \* [Calls -> Int]: the connection's idle timeout
  errS,      \* [Calls -> record]: the error stream (FwdConn.err)
  dataS,     \* [Calls -> record]: the data stream (FwdConn.data)
  wpc,       \* [Calls -> STRING]: position of the watchErr goroutine
  wbs,       \* [Calls -> Seq]: the bytes io.ReadAll returned to watchErr
  ctxDone,   \* [Calls -> BOOLEAN]: the ctx given to Forward is cancelled
  tpc,       \* [Threads -> STRING]: position of a caller inside Read/Write/Close
  tadp,      \* [Threads -> Calls]: the adapter the caller is operating on
  terrs,     \* [Threads -> Seq]: the local `errs` of Close
  tin,       \* [Threads -> record]: what the call in progress has met so far
  ret,       \* the most recent return of Read / Write / Close
  poison,    \* [Calls -> error]: the first error watchErr came to offer
  surfaced,  \* [Calls -> Nat]: calls that returned an error sent by watchErr
  got,       \* [Calls -> Seq(error)]: the values received from errch, in order
  now,       \* the clock (time.Now)
  lastSet    \* the most recent deadline call: its argument and the time

fwdVars == <<reqID0, reqID, pc, fwOf, port, nextID, allocSeq, ferr, fwd, ppc>>
sessVars == <<sess, sessLog, idleTimeout>>
streamVars == <<errS, dataS>>
watchVars == <<wpc, wbs, ctxDone>>
callerVars == <<tpc, tadp, terrs, tin, ret>>
ghostVars == <<poison, surfaced, got>>
timeVars == <<now, lastSet>>
vars == <<fwdVars, sessVars, streamVars, watchVars, callerVars, ghostVars, timeVars>>

\* ------------------------------------------------------------ pure helpers
DigitChar == <<"0", "1", "2", "3", "4", "5", "6", "7", "8", "9">>

\* Decimal digits of m <= 0, most significant first (works on the negative
\* side so that MinInt32 needs no negation).
RECURSIVE NegDigits(_)
NegDigits(m) ==
  LET d == (10 - (m % 10)) % 10
      q == (m + d) \div 10
  IN IF q = 0 THEN <<DigitChar[d + 1]>>
     ELSE Append(NegDigits(q), DigitChar[d + 1])

\* strconv.Itoa(int(next)): the decimal text, "-" first for a negative value.
Itoa(n) ==
  IF n < 0 THEN <<"-">> \o NegDigits(n) ELSE NegDigits(0 - n)

\* atomic.Int32.Add(1): two's-complement wrap-around at the top of the range.
Int32Add1(v) == IF v = MaxInt32 THEN MinInt32 ELSE v + 1

NoHdr == [type |-> "", port |-> "", reqid |-> <<>>]
Headers(t, p, id) == [type |-> t, port |-> p, reqid |-> Itoa(id)]
LogEntry(op, h) == [op |-> op, hdr |-> h]

\* Error values. Nil is Go's nil error.
Err(k, m, es) == [kind |-> k, msg |-> m, errs |-> es]
Nil == Err("nil", <<>>, <<>>)
EOF == Err("EOF", <<>>, <<>>)
ErrStreamClosed == Err("stream closed", <<>>, <<>>)
ErrDataClose == Err("data stream close failed", <<>>, <<>>)
ErrSessClose == Err("connection close failed", <<>>, <<>>)
\* fmt.Errorf("error while reading error stream: %w", err)
ErrReadingErrStream == Err("error while reading error stream", <<>>, <<>>)
\* fmt.Errorf("error returned from apiserver: %s", string(bs))
ErrFromAPIServer(bs) == Err("error returned from apiserver", bs, <<>>)
\* errors.Join: nil when no error is given, otherwise one error wrapping all.
Join(es) ==
  LET kept == SelectSeq(es, LAMBDA e : e # Nil)
  IN IF kept = <<>> THEN Nil ELSE Err("join", <<>>, kept)

\* What the remote side writes.
ErrChunk == "connection refused"
Reply == <<"O", "K">>
Request == <<"G", "E", "T", " ", "/">>
BufSizes == {1, 4}
Min(a, b) == IF a < b THEN a ELSE b

NoStream == [created |-> FALSE, wclosed |-> FALSE, content |-> <<>>, end |-> "open"]
NoData == [created |-> FALSE, closed |-> FALSE, inbox |-> <<>>, rwrites |-> 0,
           remoteClosed |-> FALSE, out |-> <<>>]
NoIn == [after |-> Nil, drained |-> Nil, dataFail |-> FALSE]
NoRet == [op |-> "", adp |-> 0, n |-> 0, data |-> <<>>, err |-> Nil, viaData |-> FALSE,
          conn |-> 0, network |-> "", addr |-> "",
          after |-> Nil, drained |-> Nil, dataFail |-> FALSE, sessFail |-> FALSE,
          avail |-> <<>>, ended |-> FALSE, torn |-> FALSE]
NoSet == [op |-> "", adp |-> 0, t |-> 0, at |-> 0, err |-> Nil]

\* -------------------------------------------------------------------- Init
Init ==
  /\ reqID0 \in [Forwarders -> StartIDs]
  /\ reqID = reqID0
  /\ pc = [c \in Calls |-> "idle"]
  /\ fwOf = [c \in Calls |-> "fw1"]
  /\ port = [c \in Calls |-> ""]
  /\ nextID = [c \in Calls |-> 0]
  /\ allocSeq = <<>>
  /\ ferr = [c \in Calls |-> ""]
  /\ ppc = [c \in Calls |-> "idle"]
  /\ fwd = [c \in Calls |-> c]
  /\ sess = [c \in Calls |-> "none"]
  /\ sessLog = [c \in Calls |-> <<>>]
  /\ idleTimeout = [c \in Calls |-> 0]
  /\ errS = [c \in Calls |-> NoStream]
  /\ dataS = [c \in Calls |-> NoData]
  /\ wpc = [c \in Calls |-> "none"]
  /\ wbs = [c \in Calls |-> <<>>]
  /\ ctxDone = [c \in Calls |-> FALSE]
  /\ tpc = [t \in Threads |-> "idle"]
  /\ tadp = [t \in Threads |-> 1]
  /\ terrs = [t \in Threads |-> <<>>]
  /\ tin = [t \in Threads |-> NoIn]
  /\ ret = NoRet
  /\ poison = [c \in Calls |-> Nil]
  /\ surfaced = [c \in Calls |-> 0]
  /\ got = [c \in Calls |-> <<>>]
  /\ now = 0
  /\ lastSet = NoSet

\* ----------------------------------------------------- Forwarder.Forward
\* A different Forward: the identifier is allocated before the dial, so that
\* a call whose dial fails has advanced the counter too.
DialAfterAlloc(c, f, p, ok) ==
  /\ pc[c] = "idle"
  /\ fwOf' = [fwOf EXCEPT ![c] = f]
  /\ port' = [port EXCEPT ![c] = p]
  /\ IF ok
       THEN /\ fwd' = [fwd EXCEPT ![c] = c]
            /\ sess' = [sess EXCEPT ![c] = "open"]
            /\ pc' = [pc EXCEPT ![c] = "reqid"]
            /\ UNCHANGED <<ferr, reqID>>
       ELSE /\ UNCHANGED <<fwd, sess>>
            /\ reqID' = [reqID EXCEPT ![f] = Int32Add1(@)]
            /\ pc' = [pc EXCEPT ![c] = "failed"]
            /\ ferr' = [ferr EXCEPT ![c] = "error dialing for stream"]
  /\ UNCHANGED <<ppc, reqID0, nextID, allocSeq, sessLog, idleTimeout>>
  /\ UNCHANGED <<streamVars, watchVars, callerVars, ghostVars, timeVars>>

\* dialer.Dial: a fresh connection, or an error that ends the call.
Dial(c, f, p, ok) ==
  /\ pc[c] = "idle"
  /\ fwOf' = [fwOf EXCEPT ![c] = f]
  /\ port' = [port EXCEPT ![c] = p]
  /\ IF ok
       THEN /\ fwd' = [fwd EXCEPT ![c] = c]
            /\ sess' = [sess EXCEPT ![c] = "open"]
            /\ pc' = [pc EXCEPT ![c] = "reqid"]
            /\ ferr' = ferr
       ELSE /\ UNCHANGED <<fwd, sess>>
            /\ pc' = [pc EXCEPT ![c] = "failed"]
            /\ ferr' = [ferr EXCEPT ![c] = "error dialing for stream"]
  /\ UNCHANGED <<ppc, reqID0, reqID, nextID, allocSeq, sessLog, idleTimeout>>
  /\ UNCHANGED <<streamVars, watchVars, callerVars, ghostVars, timeVars>>

\* dialer.Dial hands back connection s, which an earlier call dialed and
\* which is still open: the two adapters then hold the same f.fwd.
DialShared(c, f, p, s) ==
  /\ pc[c] = "idle"
  /\ s # c /\ sess[s] = "open"
  /\ fwOf' = [fwOf EXCEPT ![c] = f]
  /\ port' = [port EXCEPT ![c] = p]
  /\ fwd' = [fwd EXCEPT ![c] = s]
  /\ pc' = [pc EXCEPT ![c] = "reqid"]
  /\ UNCHANGED <<ppc, reqID0, reqID, nextID, allocSeq, ferr, sessVars>>
  /\ UNCHANGED <<streamVars, watchVars, callerVars, ghostVars, timeVars>>

\* A faulty allocation: next := fw.reqID.Load() + 1, the counter left as it was.
AllocReqIDNoStore(c) ==
  /\ pc[c] = "reqid"
  /\ LET n == Int32Add1(reqID[fwOf[c]])
     IN /\ nextID' = [nextID EXCEPT ![c] = n]
        /\ allocSeq' = Append(allocSeq, <<fwOf[c], n>>)
  /\ pc' = [pc EXCEPT ![c] = "errStream"]
  /\ UNCHANGED <<ppc, fwd, reqID0, reqID, fwOf, port, ferr>>
  /\ UNCHANGED <<sessVars, streamVars, watchVars, callerVars, ghostVars, timeVars>>

\* A faulty allocation: one counter serves every Forwarder (a package-level
\* variable instead of the field).
AllocReqIDShared(c) ==
  /\ pc[c] = "reqid"
  /\ LET n == Int32Add1(reqID["fw1"])
     IN /\ reqID' = [reqID EXCEPT !["fw1"] = n]
        /\ nextID' = [nextID EXCEPT ![c] = n]
        /\ allocSeq' = Append(allocSeq, <<fwOf[c], n>>)
  /\ pc' = [pc EXCEPT ![c] = "errStream"]
  /\ UNCHANGED <<ppc, fwd, reqID0, fwOf, port, ferr>>
  /\ UNCHANGED <<sessVars, streamVars, watchVars, callerVars, ghostVars, timeVars>>

\* next := fw.reqID.Add(1): one atomic step.
AllocReqID(c) ==
  /\ pc[c] = "reqid"
  /\ LET n == Int32Add1(reqID[fwOf[c]])
     IN /\ reqID' = [reqID EXCEPT ![fwOf[c]] = n]
        /\ nextID' = [nextID EXCEPT ![c] = n]
        /\ allocSeq' = Append(allocSeq, <<fwOf[c], n>>)
  /\ pc' = [pc EXCEPT ![c] = "errStream"]
  /\ UNCHANGED <<ppc, fwd, reqID0, fwOf, port, ferr>>
  /\ UNCHANGED <<sessVars, streamVars, watchVars, callerVars, ghostVars, timeVars>>

\* errorStream, err := conn.CreateStream(headers), the stream type "error".
CreateErrStream(c, ok) ==
  /\ pc[c] = "errStream"
  /\ sessLog' = [sessLog EXCEPT ![fwd[c]] =
       Append(@, LogEntry("CreateStream", Headers("error", port[c], nextID[c])))]
  /\ IF ok
       THEN /\ errS' = [errS EXCEPT ![c].created = TRUE]
            /\ pc' = [pc EXCEPT ![c] = "errClose"]
            /\ ferr' = ferr
       ELSE /\ errS' = errS
            /\ pc' = [pc EXCEPT ![c] = "failed"]
            /\ ferr' = [ferr EXCEPT ![c] = "error creating err stream"]
  /\ UNCHANGED <<ppc, fwd, reqID0, reqID, fwOf, port, nextID, allocSeq, sess, idleTimeout, dataS>>
  /\ UNCHANGED <<watchVars, callerVars, ghostVars, timeVars>>

\* errorStream.Close(): the local write side of the error stream is closed.
CloseErrWrite(c) ==
  /\ pc[c] = "errClose"
  /\ errS' = [errS EXCEPT ![c].wclosed = TRUE]
  /\ sessLog' = [sessLog EXCEPT ![fwd[c]] = Append(@, LogEntry("errorStream.Close", NoHdr))]
  /\ pc' = [pc EXCEPT ![c] = "dataStream"]
  /\ UNCHANGED <<ppc, fwd, reqID0, reqID, fwOf, port, nextID, allocSeq, ferr, sess, idleTimeout, dataS>>
  /\ UNCHANGED <<watchVars, callerVars, ghostVars, timeVars>>

\* A faulty open: the stream type header is not set to "data" before the
\* second CreateStream, which repeats the headers of the first.
CreateDataStreamStaleType(c, ok) ==
  /\ pc[c] = "dataStream"
  /\ sessLog' = [sessLog EXCEPT ![fwd[c]] =
       Append(@, LogEntry("CreateStream", Headers("error", port[c], nextID[c])))]
  /\ IF ok
       THEN /\ dataS' = [dataS EXCEPT ![c].created = TRUE]
            /\ pc' = [pc EXCEPT ![c] = "spawn"]
            /\ ferr' = ferr
       ELSE /\ dataS' = dataS
            /\ pc' = [pc EXCEPT ![c] = "failed"]
            /\ ferr' = [ferr EXCEPT ![c] = "error creating data stream"]
  /\ UNCHANGED <<ppc, fwd, reqID0, reqID, fwOf, port, nextID, allocSeq, sess, idleTimeout, errS>>
  /\ UNCHANGED <<watchVars, callerVars, ghostVars, timeVars>>

\* dataStream, err := conn.CreateStream(headers), the stream type "data".
CreateDataStream(c, ok) ==
  /\ pc[c] = "dataStream"
  /\ sessLog' = [sessLog EXCEPT ![fwd[c]] =
       Append(@, LogEntry("CreateStream", Headers("data", port[c], nextID[c])))]
  /\ IF ok
       THEN /\ dataS' = [dataS EXCEPT ![c].created = TRUE]
            /\ pc' = [pc EXCEPT ![c] = "spawn"]
            /\ ferr' = ferr
       ELSE /\ dataS' = dataS
            /\ pc' = [pc EXCEPT ![c] = "failed"]
            /\ ferr' = [ferr EXCEPT ![c] = "error creating data stream"]
  /\ UNCHANGED <<ppc, fwd, reqID0, reqID, fwOf, port, nextID, allocSeq, sess, idleTimeout, errS>>
  /\ UNCHANGED <<watchVars, callerVars, ghostVars, timeVars>>

\* fc := &FwdConn{...}; go fc.watchErr(ctx); return fc, nil
Spawn(c) ==
  /\ pc[c] = "spawn"
  /\ wpc' = [wpc EXCEPT ![c] = "readAll"]
  /\ pc' = [pc EXCEPT ![c] = "ok"]
  /\ UNCHANGED <<ppc, fwd, reqID0, reqID, fwOf, port, nextID, allocSeq, ferr, wbs, ctxDone>>
  /\ UNCHANGED <<sessVars, streamVars, callerVars, ghostVars, timeVars>>

\* ------------------------------------------------- package-level Forward
\* The calls of the package-level Forward, and the Forwarder NewForwarder
\* makes for each: a new one every time.
PkgCalls == {1, 2}
PkgForwarder(c) == IF c = 1 THEN "fw1" ELSE "fw2"

\* A faulty package-level Forward: every call uses one Forwarder that is
\* made once and kept.
NewForwarderKept(c, ok) ==
  /\ ppc[c] = "idle" /\ pc[c] = "idle"
  /\ IF ok
       THEN /\ fwOf' = [fwOf EXCEPT ![c] = "fw1"]
            /\ ppc' = [ppc EXCEPT ![c] = "forward"]
       ELSE /\ fwOf' = fwOf
            /\ ppc' = [ppc EXCEPT ![c] = "error creating forwarder"]
  /\ UNCHANGED <<reqID0, reqID, pc, port, nextID, allocSeq, ferr, fwd>>
  /\ UNCHANGED <<sessVars, streamVars, watchVars, callerVars, ghostVars, timeVars>>

\* fwd, err := NewForwarder(rc): a Forwarder whose reqID is zero, or the
\* return of "error creating forwarder".
NewForwarder(c, ok) ==
  /\ ppc[c] = "idle" /\ pc[c] = "idle"
  /\ IF ok
       THEN /\ reqID' = [reqID EXCEPT ![PkgForwarder(c)] = 0]
            /\ fwOf' = [fwOf EXCEPT ![c] = PkgForwarder(c)]
            /\ ppc' = [ppc EXCEPT ![c] = "forward"]
       ELSE /\ UNCHANGED <<reqID, fwOf>>
            /\ ppc' = [ppc EXCEPT ![c] = "error creating forwarder"]
  /\ UNCHANGED <<reqID0, pc, port, nextID, allocSeq, ferr, fwd>>
  /\ UNCHANGED <<sessVars, streamVars, watchVars, callerVars, ghostVars, timeVars>>

\* conn, err := fwd.Forward(ctx, pod, port): the steps of Forwarder.Forward
\* on the Forwarder just made.
PkgForwardSteps(c) ==
  /\ ppc[c] = "forward"
  /\ \/ \E p \in Ports, ok \in BOOLEAN : Dial(c, fwOf[c], p, ok)
     \/ AllocReqID(c)
     \/ \E ok \in BOOLEAN : CreateErrStream(c, ok)
     \/ CloseErrWrite(c)
     \/ \E ok \in BOOLEAN : CreateDataStream(c, ok)
     \/ Spawn(c)

\* return conn, nil, or the return of "error forwarding".
PkgReturn(c) ==
  /\ ppc[c] = "forward" /\ pc[c] \in {"ok", "failed"}
  /\ ppc' = [ppc EXCEPT ![c] = IF pc[c] = "ok" THEN "ok" ELSE "error forwarding"]
  /\ UNCHANGED <<reqID0, reqID, pc, fwOf, port, nextID, allocSeq, ferr, fwd>>
  /\ UNCHANGED <<sessVars, streamVars, watchVars, callerVars, ghostVars, timeVars>>

\* ------------------------------------------------------------ environment
\* The remote side writes diagnostic text on the error stream.
RemoteErrWrite(c) ==
  /\ errS[c].created /\ errS[c].end = "open" /\ sess[fwd[c]] = "open"
  /\ Len(errS[c].content) < MaxErrLen
  /\ errS' = [errS EXCEPT ![c].content = Append(@, ErrChunk)]
  /\ UNCHANGED <<fwdVars, sessVars, dataS, watchVars, callerVars, ghostVars, timeVars>>

\* The error stream ends cleanly: the remote side closes it, or the local
\* teardown of the connection ends it.
RemoteErrClose(c) ==
  /\ errS[c].created /\ errS[c].end = "open"
  /\ errS' = [errS EXCEPT ![c].end = "eof"]
  /\ UNCHANGED <<fwdVars, sessVars, dataS, watchVars, callerVars, ghostVars, timeVars>>

\* Reading the error stream fails (reset, broken or torn-down connection).
ErrStreamFail(c) ==
  /\ errS[c].created /\ errS[c].end = "open"
  /\ errS' = [errS EXCEPT ![c].end = "fail"]
  /\ UNCHANGED <<fwdVars, sessVars, dataS, watchVars, callerVars, ghostVars, timeVars>>

\* The remote side sends its reply on the data stream.
RemoteDataWrite(c) ==
  /\ dataS[c].created /\ ~dataS[c].remoteClosed /\ sess[fwd[c]] = "open"
  /\ dataS[c].rwrites < MaxData
  /\ dataS' = [dataS EXCEPT ![c].inbox = @ \o Reply, ![c].rwrites = @ + 1]
  /\ UNCHANGED <<fwdVars, sessVars, errS, watchVars, callerVars, ghostVars, timeVars>>

\* The remote side closes the data stream cleanly.
RemoteDataClose(c) ==
  /\ dataS[c].created /\ ~dataS[c].remoteClosed
  /\ dataS' = [dataS EXCEPT ![c].remoteClosed = TRUE]
  /\ UNCHANGED <<fwdVars, sessVars, errS, watchVars, callerVars, ghostVars, timeVars>>

\* The owner of ctx cancels it.
CancelCtx(c) ==
  /\ pc[c] # "idle" /\ ~ctxDone[c]
  /\ ctxDone' = [ctxDone EXCEPT ![c] = TRUE]
  /\ UNCHANGED <<fwdVars, sessVars, streamVars, wpc, wbs, callerVars, ghostVars, timeVars>>

\* ------------------------------------------------------- FwdConn.watchErr
\* The error watchErr is blocked sending on errch, Nil when it is not sending.
Offered(c) ==
  IF wpc[c] = "sendIO" THEN ErrReadingErrStream
  ELSE IF wpc[c] = "sendContent" THEN ErrFromAPIServer(wbs[c])
  ELSE Nil

\* Where watchErr goes once a send (or its ctx.Done alternative) is over.
AfterSend(c) ==
  IF wpc[c] = "sendIO" /\ Len(wbs[c]) > 0 THEN "sendContent" ELSE "done"

\* A faulty watcher: it sends the content error whenever the read did not
\* fail, also for empty content.
WatchReadAllAlwaysSend(c) ==
  /\ wpc[c] = "readAll"
  /\ errS[c].end # "open"
  /\ wbs' = [wbs EXCEPT ![c] = errS[c].content]
  /\ LET to == IF errS[c].end = "fail" THEN "sendIO" ELSE "sendContent"
         e == IF to = "sendIO" THEN ErrReadingErrStream
              ELSE ErrFromAPIServer(errS[c].content)
     IN /\ wpc' = [wpc EXCEPT ![c] = to]
        /\ poison' = [poison EXCEPT ![c] = e]
  /\ UNCHANGED <<fwdVars, sessVars, streamVars, ctxDone, callerVars, surfaced, got, timeVars>>

\* bs, err := io.ReadAll(f.err) returns once the stream has ended; watchErr
\* then blocks in the first select it enters.
WatchReadAll(c) ==
  /\ wpc[c] = "readAll"
  /\ errS[c].end # "open"
  /\ wbs' = [wbs EXCEPT ![c] = errS[c].content]
  /\ LET to == IF errS[c].end = "fail" THEN "sendIO"
               ELSE IF Len(errS[c].content) > 0 THEN "sendContent"
               ELSE "done"
         e == IF to = "sendIO" THEN ErrReadingErrStream
              ELSE IF to = "sendContent" THEN ErrFromAPIServer(errS[c].content)
              ELSE Nil
     IN /\ wpc' = [wpc EXCEPT ![c] = to]
        /\ poison' = [poison EXCEPT ![c] = e]
  /\ UNCHANGED <<fwdVars, sessVars, streamVars, ctxDone, callerVars, surfaced, got, timeVars>>

\* A faulty watcher: only the first select has the ctx.Done case; the send of
\* the content error waits for a receiver.
WatchCtxDoneFirstSelectOnly(c) ==
  /\ wpc[c] = "sendIO"
  /\ ctxDone[c]
  /\ wpc' = [wpc EXCEPT ![c] = AfterSend(c)]
  /\ UNCHANGED <<fwdVars, sessVars, streamVars, wbs, ctxDone, callerVars, ghostVars, timeVars>>

\* case <-ctx.Done(): the send is abandoned.
WatchCtxDone(c) ==
  /\ wpc[c] \in {"sendIO", "sendContent"}
  /\ ctxDone[c]
  /\ wpc' = [wpc EXCEPT ![c] = AfterSend(c)]
  /\ UNCHANGED <<fwdVars, sessVars, streamVars, wbs, ctxDone, callerVars, ghostVars, timeVars>>

\* ------------------------------------------------ FwdConn.Read and Write
ConnCalls == {1}
ClosePcs == {"closeData", "closeRemove", "closeSess"}

\* Close has been called on adapter c (callers call it once per adapter).
CloseStarted(c) ==
  \/ \E t \in Threads : tpc[t] \in ClosePcs /\ tadp[t] = c
  \/ \E i \in 1..Len(sessLog[fwd[c]]) : sessLog[fwd[c]][i].op = "data.Close"

\* f.data.Read(b) with len(b) = size, on stream ds of a connection in state
\* st: the count, the bytes, the error, and what stays in the stream.
DataRead(ds, st, size) ==
  IF st = "closed"
    THEN [n |-> 0, data |-> <<>>, err |-> ErrStreamClosed, inbox |-> ds.inbox]
  ELSE IF Len(ds.inbox) > 0
    THEN LET n == Min(size, Len(ds.inbox))
         IN [n |-> n, data |-> SubSeq(ds.inbox, 1, n), err |-> Nil,
             inbox |-> SubSeq(ds.inbox, n + 1, Len(ds.inbox))]
  ELSE [n |-> 0, data |-> <<>>, err |-> EOF, inbox |-> <<>>]

\* f.data.Read blocks while the stream is open and holds nothing.
DataReadBlocks(ds, st) ==
  st # "closed" /\ Len(ds.inbox) = 0 /\ ~ds.remoteClosed

\* f.data.Write(b): refused once the write side or the connection is closed.
DataWrite(ds, st, b) ==
  IF st = "closed" \/ ds.closed
    THEN [n |-> 0, err |-> ErrStreamClosed, out |-> ds.out]
    ELSE [n |-> Len(b), err |-> Nil, out |-> Append(ds.out, b)]

\* A faulty channel: the receiver sees the value but watchErr stays blocked
\* offering it (as if errch were closed over a stored error).
ReceiveLeavesOffer(c) ==
  /\ wpc' = wpc
  /\ surfaced' = [surfaced EXCEPT ![c] = @ + 1]
  /\ got' = [got EXCEPT ![c] = Append(@, Offered(c))]

\* A receive on errch that finds watchErr sending: the value changes hands
\* and watchErr moves on.
Receive(c) ==
  /\ wpc' = [wpc EXCEPT ![c] = AfterSend(c)]
  /\ surfaced' = [surfaced EXCEPT ![c] = @ + 1]
  /\ got' = [got EXCEPT ![c] = Append(@, Offered(c))]

\* The select of Read and Write: `case err := <-f.errch: return 0, err`,
\* or `default:` and on to the data stream.
CheckErrch(t, c, op, onward) ==
  /\ tpc[t] = "idle"
  /\ pc[c] = "ok"
  /\ tadp' = [tadp EXCEPT ![t] = c]
  /\ IF Offered(c) # Nil
       THEN /\ Receive(c)
            /\ ret' = [NoRet EXCEPT !.op = op, !.adp = c, !.err = Offered(c),
                                    !.after = poison[c]]
            /\ UNCHANGED <<tpc, tin>>
       ELSE /\ tpc' = [tpc EXCEPT ![t] = onward]
            /\ tin' = [tin EXCEPT ![t] = [NoIn EXCEPT !.after = poison[c]]]
            /\ UNCHANGED <<wpc, surfaced, got, ret>>
  /\ UNCHANGED <<fwdVars, sessVars, streamVars, wbs, ctxDone, terrs, poison, timeVars>>

ReadCheck(t, c) == CheckErrch(t, c, "Read", "readData")

\* A faulty Read: end-of-stream from the data stream is returned as no error.
ReadDataHidesEOF(t, size) ==
  /\ tpc[t] = "readData"
  /\ LET c == tadp[t]
         r == DataRead(dataS[c], sess[fwd[c]], size)
     IN /\ ~DataReadBlocks(dataS[c], sess[fwd[c]])
        /\ dataS' = [dataS EXCEPT ![c].inbox = r.inbox]
        /\ ret' = [NoRet EXCEPT !.op = "Read", !.adp = c, !.n = r.n, !.data = r.data,
                                !.err = IF r.err = EOF THEN Nil ELSE r.err,
                                !.viaData = TRUE,
                                !.after = tin[t].after,
                                !.avail = dataS[c].inbox,
                                !.ended = dataS[c].remoteClosed,
                                !.torn = (sess[fwd[c]] = "closed")]
  /\ tpc' = [tpc EXCEPT ![t] = "idle"]
  /\ UNCHANGED <<fwdVars, sessVars, errS, watchVars, tadp, terrs, tin, ghostVars, timeVars>>

\* return f.data.Read(b)
ReadData(t, size) ==
  /\ tpc[t] = "readData"
  /\ LET c == tadp[t]
         r == DataRead(dataS[c], sess[fwd[c]], size)
     IN /\ ~DataReadBlocks(dataS[c], sess[fwd[c]])
        /\ dataS' = [dataS EXCEPT ![c].inbox = r.inbox]
        /\ ret' = [NoRet EXCEPT !.op = "Read", !.adp = c, !.n = r.n, !.data = r.data,
                                !.err = r.err, !.viaData = TRUE,
                                !.after = tin[t].after,
                                !.avail = dataS[c].inbox,
                                !.ended = dataS[c].remoteClosed,
                                !.torn = (sess[fwd[c]] = "closed")]
  /\ tpc' = [tpc EXCEPT ![t] = "idle"]
  /\ UNCHANGED <<fwdVars, sessVars, errS, watchVars, tadp, terrs, tin, ghostVars, timeVars>>

WriteCheck(t, c) ==
  /\ Len(dataS[c].out) < MaxData
  /\ CheckErrch(t, c, "Write", "writeData")

\* return f.data.Write(b)
WriteData(t) ==
  /\ tpc[t] = "writeData"
  /\ LET c == tadp[t]
         r == DataWrite(dataS[c], sess[fwd[c]], Request)
     IN /\ dataS' = [dataS EXCEPT ![c].out = r.out]
        /\ ret' = [NoRet EXCEPT !.op = "Write", !.adp = c, !.n = r.n, !.err = r.err,
                                !.viaData = TRUE, !.after = tin[t].after,
                                !.torn = (sess[fwd[c]] = "closed" \/ dataS[c].closed)]
  /\ tpc' = [tpc EXCEPT ![t] = "idle"]
  /\ UNCHANGED <<fwdVars, sessVars, errS, watchVars, tadp, terrs, tin, ghostVars, timeVars>>

\* ---------------------------------------------------------- FwdConn.Close
\* var errs []error; select { case err := <-f.errch: ...; default: }
CloseDrain(t, c) ==
  /\ tpc[t] = "idle"
  /\ pc[c] = "ok"
  /\ ~CloseStarted(c)
  /\ tadp' = [tadp EXCEPT ![t] = c]
  /\ tpc' = [tpc EXCEPT ![t] = "closeData"]
  /\ tin' = [tin EXCEPT ![t] = [NoIn EXCEPT !.after = poison[c], !.drained = Offered(c)]]
  /\ IF Offered(c) # Nil
       THEN /\ Receive(c)
            /\ terrs' = [terrs EXCEPT ![t] = <<Offered(c)>>]
       ELSE /\ terrs' = [terrs EXCEPT ![t] = <<>>]
            /\ UNCHANGED <<wpc, surfaced, got>>
  /\ UNCHANGED <<fwdVars, sessVars, streamVars, wbs, ctxDone, ret, poison, timeVars>>

\* A faulty Close: it returns as soon as closing the data stream fails.
CloseDataReturnOnErr(t, fail) ==
  /\ tpc[t] = "closeData"
  /\ LET c == tadp[t]
     IN /\ dataS' = [dataS EXCEPT ![c].closed = TRUE]
        /\ sessLog' = [sessLog EXCEPT ![fwd[c]] = Append(@, LogEntry("data.Close", NoHdr))]
        /\ ret' = IF fail
                    THEN [NoRet EXCEPT !.op = "Close", !.adp = c,
                                       !.err = Join(Append(terrs[t], ErrDataClose)),
                                       !.after = tin[t].after, !.drained = tin[t].drained,
                                       !.dataFail = TRUE]
                    ELSE ret
  /\ terrs' = [terrs EXCEPT ![t] = IF fail THEN Append(@, ErrDataClose) ELSE @]
  /\ tin' = [tin EXCEPT ![t].dataFail = fail]
  /\ tpc' = [tpc EXCEPT ![t] = IF fail THEN "idle" ELSE "closeRemove"]
  /\ UNCHANGED <<fwdVars, sess, idleTimeout, errS, watchVars, tadp, ghostVars, timeVars>>

\* A faulty Close: it goes on to close the data stream only once watchErr
\* has terminated.
CloseDataWaitsForWatcher(t, fail) ==
  /\ tpc[t] = "closeData"
  /\ wpc[tadp[t]] = "done"
  /\ LET c == tadp[t]
     IN /\ dataS' = [dataS EXCEPT ![c].closed = TRUE]
        /\ sessLog' = [sessLog EXCEPT ![fwd[c]] = Append(@, LogEntry("data.Close", NoHdr))]
  /\ terrs' = [terrs EXCEPT ![t] = IF fail THEN Append(@, ErrDataClose) ELSE @]
  /\ tin' = [tin EXCEPT ![t].dataFail = fail]
  /\ tpc' = [tpc EXCEPT ![t] = "closeRemove"]
  /\ UNCHANGED <<fwdVars, sess, idleTimeout, errS, watchVars, tadp, ret, ghostVars, timeVars>>

\* err := f.data.Close(); if err != nil { errs = append(errs, err) }
CloseData(t, fail) ==
  /\ tpc[t] = "closeData"
  /\ LET c == tadp[t]
     IN /\ dataS' = [dataS EXCEPT ![c].closed = TRUE]
        /\ sessLog' = [sessLog EXCEPT ![fwd[c]] = Append(@, LogEntry("data.Close", NoHdr))]
  /\ terrs' = [terrs EXCEPT ![t] = IF fail THEN Append(@, ErrDataClose) ELSE @]
  /\ tin' = [tin EXCEPT ![t].dataFail = fail]
  /\ tpc' = [tpc EXCEPT ![t] = "closeRemove"]
  /\ UNCHANGED <<fwdVars, sess, idleTimeout, errS, watchVars, tadp, ret, ghostVars, timeVars>>

\* A faulty Close: it closes the connection at the point where it should
\* remove the streams from it.
CloseRemoveClosesConn(t) ==
  /\ tpc[t] = "closeRemove"
  /\ sess' = [sess EXCEPT ![fwd[tadp[t]]] = "closed"]
  /\ sessLog' = [sessLog EXCEPT ![fwd[tadp[t]]] = Append(@, LogEntry("fwd.Close", NoHdr))]
  /\ tpc' = [tpc EXCEPT ![t] = "closeSess"]
  /\ UNCHANGED <<fwdVars, idleTimeout, streamVars, watchVars, tadp, terrs, tin, ret,
                 ghostVars, timeVars>>

\* f.fwd.RemoveStreams(f.data, f.err)
CloseRemove(t) ==
  /\ tpc[t] = "closeRemove"
  /\ sessLog' = [sessLog EXCEPT ![fwd[tadp[t]]] = Append(@, LogEntry("RemoveStreams", NoHdr))]
  /\ tpc' = [tpc EXCEPT ![t] = "closeSess"]
  /\ UNCHANGED <<fwdVars, sess, idleTimeout, streamVars, watchVars, tadp, terrs, tin, ret,
                 ghostVars, timeVars>>

\* A faulty Close: the error of closing the connection is dropped.
CloseSessDropsErr(t, fail) ==
  /\ tpc[t] = "closeSess"
  /\ LET c == tadp[t]
     IN /\ sess' = [sess EXCEPT ![fwd[c]] = "closed"]
        /\ sessLog' = [sessLog EXCEPT ![fwd[c]] = Append(@, LogEntry("fwd.Close", NoHdr))]
        /\ ret' = [NoRet EXCEPT !.op = "Close", !.adp = c, !.err = Join(terrs[t]),
                                !.after = tin[t].after, !.drained = tin[t].drained,
                                !.dataFail = tin[t].dataFail, !.sessFail = fail]
  /\ tpc' = [tpc EXCEPT ![t] = "idle"]
  /\ UNCHANGED <<fwdVars, idleTimeout, streamVars, watchVars, tadp, terrs, tin, ghostVars,
                 timeVars>>

\* err = f.fwd.Close(); if err != nil { ... }; return errors.Join(errs...)
CloseSess(t, fail) ==
  /\ tpc[t] = "closeSess"
  /\ LET c == tadp[t]
         errs == IF fail THEN Append(terrs[t], ErrSessClose) ELSE terrs[t]
     IN /\ sess' = [sess EXCEPT ![fwd[c]] = "closed"]
        /\ sessLog' = [sessLog EXCEPT ![fwd[c]] = Append(@, LogEntry("fwd.Close", NoHdr))]
        /\ terrs' = [terrs EXCEPT ![t] = errs]
        /\ ret' = [NoRet EXCEPT !.op = "Close", !.adp = c, !.err = Join(errs),
                                !.after = tin[t].after, !.drained = tin[t].drained,
                                !.dataFail = tin[t].dataFail, !.sessFail = fail]
  /\ tpc' = [tpc EXCEPT ![t] = "idle"]
  /\ UNCHANGED <<fwdVars, idleTimeout, streamVars, watchVars, tadp, tin, ghostVars, timeVars>>

\* -------------------------------------------------------------- deadlines
\* time.Duration counts from MinDuration to MaxDuration (the int64 range of
\* nanoseconds, here in whole minutes); the clock of the model counts minutes
\* from its start, and ZeroTime is the zero time.Time (year 1) on that clock.
MaxDuration == 153722867
MinDuration == 0 - MaxDuration
ZeroTime == -1065000000
DeadlineTimes == {ZeroTime} \cup (0..(MaxNow + 1))

\* t.Sub(u): the difference, saturated to the range of time.Duration.
Sub(t, u) ==
  LET d == t - u
  IN IF d < MinDuration THEN MinDuration
     ELSE IF d > MaxDuration THEN MaxDuration
     ELSE d

\* time.Until(t) evaluated when the clock shows `at`.
Until(t, at) == Sub(t, at)

\* Faulty setters: the timeout is kept per adapter, not on the connection.
SetTimeoutOfAdapter(op, c, t) ==
  /\ pc[c] = "ok"
  /\ idleTimeout' = [idleTimeout EXCEPT ![c] = Until(t, now)]
  /\ lastSet' = [op |-> op, adp |-> c, t |-> t, at |-> now, err |-> Nil]
  /\ UNCHANGED <<fwdVars, sess, sessLog, streamVars, watchVars, callerVars, ghostVars, now>>

\* f.fwd.SetIdleTimeout(time.Until(t)); return nil
SetIdleTimeoutUntil(op, c, t) ==
  /\ pc[c] = "ok"
  /\ idleTimeout' = [idleTimeout EXCEPT ![fwd[c]] = Until(t, now)]
  /\ lastSet' = [op |-> op, adp |-> c, t |-> t, at |-> now, err |-> Nil]
  /\ UNCHANGED <<fwdVars, sess, sessLog, streamVars, watchVars, callerVars, ghostVars, now>>

SetDeadline(c, t) == SetIdleTimeoutUntil("SetDeadline", c, t)
SetReadDeadline(c, t) == SetIdleTimeoutUntil("SetReadDeadline", c, t)
SetWriteDeadline(c, t) == SetIdleTimeoutUntil("SetWriteDeadline", c, t)

\* Time passes.
Tick ==
  /\ now < MaxNow
  /\ now' = now + 1
  /\ UNCHANGED <<fwdVars, sessVars, streamVars, watchVars, callerVars, ghostVars, lastSet>>

\* ---------------------------------------------------------- HTTPTransport
\* What http.Transport may pass to the dial function.
Networks == {"tcp", "udp"}
Addrs == {"httpbin:80", "other:443"}

\* A faulty dial function: it refuses once the connection of the adapter is
\* closed or the watcher has reported an error.
DialContextChecksState(c, network, addr) ==
  /\ pc[c] = "ok"
  /\ ret' = IF sess[fwd[c]] = "closed" \/ poison[c] # Nil
              THEN [NoRet EXCEPT !.op = "DialContext", !.adp = c, !.network = network,
                                 !.addr = addr, !.err = ErrStreamClosed]
              ELSE [NoRet EXCEPT !.op = "DialContext", !.adp = c, !.network = network,
                                 !.addr = addr, !.conn = c]
  /\ UNCHANGED <<fwdVars, sessVars, streamVars, watchVars, tpc, tadp, terrs, tin,
                 ghostVars, timeVars>>

\* DialContext: func(ctx, network, addr) (net.Conn, error) { return f, nil },
\* the dial function of the transport made by HTTPTransport of adapter c.
DialContext(c, network, addr) ==
  /\ pc[c] = "ok"
  /\ ret' = [NoRet EXCEPT !.op = "DialContext", !.adp = c, !.network = network,
                          !.addr = addr, !.conn = c, !.err = Nil]
  /\ UNCHANGED <<fwdVars, sessVars, streamVars, watchVars, tpc, tadp, terrs, tin,
                 ghostVars, timeVars>>

NextFwd ==
  \/ \E c \in Calls, f \in Forwarders, p \in Ports, ok \in BOOLEAN : Dial(c, f, p, ok)
  \/ \E c \in Calls : AllocReqID(c)
  \/ \E c \in Calls, ok \in BOOLEAN : CreateErrStream(c, ok)
  \/ \E c \in Calls : CloseErrWrite(c)
  \/ \E c \in Calls, ok \in BOOLEAN : CreateDataStream(c, ok)
  \/ \E c \in Calls : Spawn(c)

\* Any number of Forward calls, on either Forwarder, running concurrently.
SpecFwd == Init /\ [][NextFwd]_vars

\* One Forward call and the life of the adapter it returns, with one caller.
ForwardOne(c) ==
  \/ \E p \in Ports, ok \in BOOLEAN : Dial(c, "fw1", p, ok)
  \/ AllocReqID(c)
  \/ \E ok \in BOOLEAN : CreateErrStream(c, ok)
  \/ CloseErrWrite(c)
  \/ \E ok \in BOOLEAN : CreateDataStream(c, ok)
  \/ Spawn(c)

Environment(c) ==
  \/ RemoteErrWrite(c)
  \/ RemoteErrClose(c)
  \/ ErrStreamFail(c)
  \/ RemoteDataWrite(c)
  \/ RemoteDataClose(c)
  \/ CancelCtx(c)

Watcher(c) ==
  \/ WatchReadAll(c)
  \/ WatchCtxDone(c)

Caller(t, c) ==
  \/ ReadCheck(t, c)
  \/ \E size \in BufSizes : ReadData(t, size)
  \/ WriteCheck(t, c)
  \/ WriteData(t)
  \/ CloseDrain(t, c)
  \/ \E fail \in BOOLEAN : CloseData(t, fail)
  \/ CloseRemove(t)
  \/ \E fail \in BOOLEAN : CloseSess(t, fail)

NextConn ==
  \E c \in ConnCalls :
    \/ ForwardOne(c)
    \/ Environment(c)
    \/ Watcher(c)
    \/ Caller("t1", c)

InitConn == Init /\ reqID0 = [f \in Forwarders |-> 0]

SpecConn == InitConn /\ [][NextConn]_vars

\* The scheduler runs the watchErr goroutine whenever it can take a step, a
\* Close that has begun runs to its end, and tearing the connection down ends
\* the error stream. Nothing obliges the caller to start a call or the owner
\* of ctx to cancel it.
TeardownEndsErrStream(c) ==
  /\ sess[fwd[c]] = "closed"
  /\ (RemoteErrClose(c) \/ ErrStreamFail(c))

CloseRuns(t) ==
  \/ \E fail \in BOOLEAN : CloseData(t, fail)
  \/ CloseRemove(t)
  \/ \E fail \in BOOLEAN : CloseSess(t, fail)

FairConn ==
  /\ SpecConn
  /\ \A c \in ConnCalls : WF_vars(Watcher(c)) /\ WF_vars(TeardownEndsErrStream(c))
  /\ WF_vars(CloseRuns("t1"))

\* One adapter, the clock, and the three deadline setters.
NextDeadline ==
  \/ \E c \in ConnCalls : ForwardOne(c)
  \/ Tick
  \/ \E c \in ConnCalls, t \in DeadlineTimes : SetDeadline(c, t)
  \/ \E c \in ConnCalls, t \in DeadlineTimes : SetReadDeadline(c, t)
  \/ \E c \in ConnCalls, t \in DeadlineTimes : SetWriteDeadline(c, t)

SpecDeadline == InitConn /\ [][NextDeadline]_vars

\* One adapter that is dialed through its HTTPTransport at any time of its
\* life: before and after the watcher reports an error, during and after Close.
NextHTTP ==
  \E c \in ConnCalls :
    \/ ForwardOne(c)
    \/ RemoteErrWrite(c)
    \/ RemoteErrClose(c)
    \/ ErrStreamFail(c)
    \/ Watcher(c)
    \/ CancelCtx(c)
    \/ CloseDrain("t1", c)
    \/ CloseRuns("t1")
    \/ \E network \in Networks, addr \in Addrs : DialContext(c, network, addr)

SpecHTTP == InitConn /\ [][NextHTTP]_vars

\* One adapter used by two callers at once: their Read, Write and Close calls
\* interleave with each other and with watchErr. The remote side sends no
\* reply on the data stream here.
NextRace ==
  \E c \in ConnCalls :
    \/ ForwardOne(c)
    \/ RemoteErrWrite(c)
    \/ RemoteErrClose(c)
    \/ ErrStreamFail(c)
    \/ RemoteDataClose(c)
    \/ CancelCtx(c)
    \/ Watcher(c)
    \/ Caller("t1", c)
    \/ Caller("t2", c)

SpecRace == InitConn /\ [][NextRace]_vars

\* Two adapters, the second of which may be given the connection of the
\* first, the clock, and the three deadline setters on either adapter.
NextShared ==
  \/ ForwardOne(1)
  \/ ForwardOne(2)
  \/ \E p \in Ports : DialShared(2, "fw1", p, 1)
  \/ Tick
  \/ \E c \in {1, 2}, t \in DeadlineTimes : SetDeadline(c, t)
  \/ \E c \in {1, 2}, t \in DeadlineTimes : SetReadDeadline(c, t)
  \/ \E c \in {1, 2}, t \in DeadlineTimes : SetWriteDeadline(c, t)

SpecShared == InitConn /\ [][NextShared]_vars

\* Calls of the package-level Forward, running concurrently.
NextPkg ==
  \E c \in PkgCalls :
    \/ \E ok \in BOOLEAN : NewForwarder(c, ok)
    \/ PkgForwardSteps(c)
    \/ PkgReturn(c)

SpecPkg == InitConn /\ [][NextPkg]_vars

\* ================================================================= claims
Range(q) == {q[i] : i \in 1..Len(q)}
Max(a, b) == IF a > b THEN a ELSE b
LogOps(c) == [i \in 1..Len(sessLog[fwd[c]]) |-> sessLog[fwd[c]][i].op]

\* ------------------------------------------------------------------- C1
\* C1 (as claimed): once watchErr has come to offer the content error of an
\* error stream that the remote side wrote to and closed, every Read and
\* Write that begins afterwards returns that error with count 0 and does not
\* call the data stream (ctx is not cancelled, so no send is abandoned).
C1_PoisonIsPermanent ==
  \A c \in ConnCalls :
    ( /\ ret.op \in {"Read", "Write"} /\ ret.adp = c
      /\ ~ctxDone[c]
      /\ errS[c].end = "eof" /\ errS[c].content # <<>>
      /\ ret.after = ErrFromAPIServer(errS[c].content) )
    => (ret.err = ret.after /\ ret.n = 0 /\ ~ret.viaData)

\* ------------------------------------------------------------------- C2
\* The i-th value an Int32 counter takes after v.
NthAfter(v, i) ==
  IF v <= MaxInt32 - i THEN v + i ELSE MinInt32 + (i - 1 - (MaxInt32 - v))

\* Forward call c has put its request identifier into its headers.
HasID(c) ==
  \/ pc[c] \in {"errStream", "errClose", "dataStream", "spawn", "ok"}
  \/ pc[c] = "failed" /\ ferr[c] # "error dialing for stream"

CallsOn(f) == {c \in Calls : HasID(c) /\ fwOf[c] = f}

\* C2: for the Forward calls made on one Forwarder, in flight together or
\* not, the request identifiers in their stream-open headers are pairwise
\* distinct, and they are exactly the N values the counter takes after its
\* prior value (successive Int32 values); every CreateStream call carries the
\* identifier of its own Forward call.
C2_DistinctConsecutiveIDs ==
  \A f \in Forwarders :
    /\ \A c1, c2 \in CallsOn(f) : c1 # c2 => Itoa(nextID[c1]) # Itoa(nextID[c2])
    /\ {nextID[c] : c \in CallsOn(f)}
         = {NthAfter(reqID0[f], i) : i \in 1..Cardinality(CallsOn(f))}
    /\ \A c \in CallsOn(f) : \A i \in 1..Len(sessLog[fwd[c]]) :
         sessLog[fwd[c]][i].op = "CreateStream" => sessLog[fwd[c]][i].hdr.reqid = Itoa(nextID[c])

\* Two Forward calls on one Forwarder hold their identifiers at the same
\* time, both about to create their error streams.
C2_Witness ==
  \E c1, c2 \in Calls :
    /\ c1 # c2 /\ fwOf[c1] = fwOf[c2]
    /\ pc[c1] = "errStream" /\ pc[c2] = "errStream"
    /\ reqID0[fwOf[c1]] = 0

\* ------------------------------------------------------------------- C3
\* C3: when Close has returned, f.data.Close() and f.fwd.Close() have both
\* been called - the data stream and the connection are closed - whatever
\* the drain received and whichever of the two closes failed.
C3_CloseClosesBoth ==
  (ret.op = "Close") =>
    /\ "data.Close" \in Range(LogOps(ret.adp))
    /\ "fwd.Close" \in Range(LogOps(ret.adp))
    /\ dataS[ret.adp].closed
    /\ sess[fwd[ret.adp]] = "closed"

\* A Close that drained a pending error and whose data-stream close failed
\* has returned.
C3_Witness ==
  /\ ret.op = "Close"
  /\ ret.drained # Nil
  /\ ret.dataFail
  /\ sess[fwd[ret.adp]] = "closed"

\* ------------------------------------------------------------------- C4
\* The errors one Close met: the drained one, then the two close failures.
CloseFacts(r) ==
  (IF r.drained # Nil THEN <<r.drained>> ELSE <<>>)
    \o (IF r.dataFail THEN <<ErrDataClose>> ELSE <<>>)
    \o (IF r.sessFail THEN <<ErrSessClose>> ELSE <<>>)

\* C4: the error Close returns is nil exactly when it drained nothing and
\* neither close failed; otherwise it is the aggregate of exactly the errors
\* it met.
C4_CloseErrorIffFailure ==
  (ret.op = "Close") =>
    /\ (ret.err # Nil) <=> (ret.drained # Nil \/ ret.dataFail \/ ret.sessFail)
    /\ (ret.err # Nil) => (ret.err.kind = "join" /\ ret.err.errs = CloseFacts(ret))

\* A Close that drained an error and failed to close the connection, with
\* the data stream closing without error.
C4_Witness ==
  /\ ret.op = "Close"
  /\ ret.drained # Nil /\ ~ret.dataFail /\ ret.sessFail
  /\ Len(ret.err.errs) = 2

\* ------------------------------------------------------------------- C5
\* C5 (as claimed): over the life of an adapter at most one call returns an
\* error sent by watchErr.
C5_AtMostOneWatcherError ==
  \A c \in ConnCalls : surfaced[c] <= 1

\* ------------------------------------------------------------------- C6
CleanEmpty(c) == errS[c].end = "eof" /\ errS[c].content = <<>>

\* C6: when the error stream ends cleanly with nothing written on it,
\* watchErr never sends (it is not started yet, or still reading and able to
\* return, or has terminated) and no call returns an error of the watcher: Read and Write
\* reach the data stream, Read hands back what the stream holds and then
\* end-of-stream, and Close returns nil when both closes succeed.
C6_CleanEndNoError ==
  \A c \in ConnCalls : CleanEmpty(c) =>
    /\ wpc[c] \in {"none", "readAll", "done"}
    /\ (wpc[c] = "none") <=> (pc[c] # "ok")
    /\ (wpc[c] = "readAll" => ENABLED WatchReadAll(c))
    /\ poison[c] = Nil /\ surfaced[c] = 0
    /\ (ret.adp = c /\ ret.op \in {"Read", "Write"}) => ret.viaData
    /\ (ret.adp = c /\ ret.op = "Read" /\ ~ret.torn) =>
         /\ (ret.avail # <<>>) =>
              /\ ret.err = Nil /\ ret.n > 0
              /\ ret.data = SubSeq(ret.avail, 1, ret.n)
         /\ (ret.avail = <<>> /\ ret.ended) => (ret.err = EOF /\ ret.n = 0)
    /\ (ret.adp = c /\ ret.op = "Close" /\ ~ret.dataFail /\ ~ret.sessFail) => ret.err = Nil

\* The echo scenario at its end: the request was written, the reply read to
\* the end, the remote side closed both streams cleanly, the watcher has
\* terminated and Close has returned nil.
C6_Witness ==
  /\ CleanEmpty(1) /\ wpc[1] = "done"
  /\ dataS[1].out = <<Request>> /\ dataS[1].rwrites > 0
  /\ dataS[1].inbox = <<>> /\ dataS[1].remoteClosed
  /\ ret.op = "Close" /\ ret.err = Nil

\* ------------------------------------------------------------------- C7
\* C7 (as claimed): once Close has torn the connection down, watchErr
\* eventually terminates.
C7_WatcherEndsAfterClose ==
  \A c \in ConnCalls : (sess[fwd[c]] = "closed") ~> (wpc[c] = "done")

\* ------------------------------------------------------------------- C8
\* C8 (as claimed): when Forward has returned an error after the dial
\* succeeded, the connection it dialed has been closed, and no watcher runs.
C8_FailedForwardClosesAll ==
  \A c \in Calls :
    (pc[c] = "failed" /\ sess[fwd[c]] # "none") =>
      /\ sess[fwd[c]] = "closed"
      /\ "fwd.Close" \in Range(LogOps(c))
      /\ wpc[c] = "none"

\* ------------------------------------------------------------------- C9
\* C9 (as claimed): after a deadline setter was called with time T, the idle
\* timeout of the connection is max(0, T - now), now being the time of call.
C9_DeadlineClampedAtZero ==
  (lastSet.op # "") =>
    idleTimeout[fwd[lastSet.adp]] = Max(0, lastSet.t - lastSet.at)

\* ------------------------------------------------------------------ C10
\* C10 (as claimed): every request identifier a Forwarder allocates is
\* non-negative and greater than every identifier it allocated before.
C10_IDsNonNegativeIncreasing ==
  \A i \in 1..Len(allocSeq) :
    /\ allocSeq[i][2] >= 0
    /\ \A j \in 1..(i - 1) :
         allocSeq[j][1] = allocSeq[i][1] => allocSeq[j][2] < allocSeq[i][2]
\* C11: a Forward that succeeds has made exactly these calls on its
\* connection, in this order: CreateStream for the error stream, Close of the
\* error stream's write side, CreateStream for the data stream. The two
\* CreateStream calls carry the port and the request identifier of the call
\* and differ in the stream type alone ("error", then "data"). The data stream
\* never exists before the error stream's write side is closed, and watchErr
\* never runs before both streams exist.
C11_OpenProtocolOrder ==
  \A c \in Calls :
    LET log == sessLog[fwd[c]]
    IN /\ pc[c] \in {"spawn", "ok"} =>
            /\ LogOps(c) = <<"CreateStream", "errorStream.Close", "CreateStream">>
            /\ log[1].hdr = Headers("error", port[c], nextID[c])
            /\ log[3].hdr = [log[1].hdr EXCEPT !.type = "data"]
       /\ dataS[c].created => errS[c].created /\ errS[c].wclosed
       /\ wpc[c] # "none" => errS[c].created /\ dataS[c].created

\* A Forward for port 8080 that succeeded with the second identifier of its
\* Forwarder and started the watcher.
C11_Witness ==
  \E c \in Calls :
    /\ pc[c] = "ok" /\ wpc[c] = "readAll"
    /\ port[c] = "8080" /\ nextID[c] = 2
    /\ Len(sessLog[fwd[c]]) = 3

\* C12: every call of the dial function of an adapter's HTTPTransport returns
\* that adapter itself and a nil error, for every network and address, also
\* when the adapter has been closed or its watcher has reported an error.
C12_DialReturnsAdapter ==
  ret.op = "DialContext" => ret.conn = ret.adp /\ ret.err = Nil

\* A dial for another address, over another network, made after the watcher
\* reported an error and the adapter was closed.
C12_Witness ==
  /\ ret.op = "DialContext"
  /\ ret.network = "udp" /\ ret.addr = "other:443"
  /\ sess[fwd[ret.adp]] = "closed"
  /\ poison[ret.adp] # Nil

NoDup(q) == \A i, j \in 1..Len(q) : q[i] = q[j] => i = j

\* The values of the sends watchErr has left behind, in the order it made them.
Passed(c) ==
  LET io == IF errS[c].end = "fail" THEN <<ErrReadingErrStream>> ELSE <<>>
      content == IF Len(wbs[c]) > 0 THEN <<ErrFromAPIServer(wbs[c])>> ELSE <<>>
  IN IF wpc[c] = "sendContent" THEN io
     ELSE IF wpc[c] = "done" THEN io \o content
     ELSE <<>>

\* C13: with two callers racing on one adapter, each value watchErr sends is
\* received by at most one call: no value is received twice, a value still
\* being offered has been received by nobody, only values watchErr has sent
\* are received, and (ctx not cancelled) every send watchErr has left behind
\* was received exactly once. A call that returns or holds an error from errch
\* holds a value received so.
C13_ErrorReceivedOnce ==
  \A c \in ConnCalls :
    /\ NoDup(got[c])
    /\ Len(got[c]) = surfaced[c]
    /\ Range(got[c]) \subseteq Range(Passed(c))
    /\ Offered(c) # Nil => Offered(c) \notin Range(got[c])
    /\ ~ctxDone[c] => got[c] = Passed(c)
    /\ (ret.op \in {"Read", "Write"} /\ ret.adp = c /\ ~ret.viaData) =>
         ret.err \in Range(got[c])
    /\ \A t \in Threads :
         (tpc[t] \in ClosePcs /\ tin[t].drained # Nil) => tin[t].drained \in Range(got[c])

\* Close on one thread received the one value watchErr sent, while a Read on
\* the other thread, begun after watchErr came to offer it, found the channel
\* empty and is at the data stream.
C13_Witness ==
  \E c \in ConnCalls :
    /\ ~ctxDone[c] /\ wpc[c] = "done" /\ Len(got[c]) = 1
    /\ tpc["t1"] \in ClosePcs /\ tin["t1"].drained = got[c][1]
    /\ tpc["t2"] = "readData" /\ tin["t2"].after # Nil

\* A step in which a Read or Write call returns.
ReadWriteReturns ==
  \/ ret' # ret /\ ret'.op \in {"Read", "Write"}
  \/ \E t \in Threads : tpc[t] \in {"readData", "writeData"} /\ tpc'[t] = "idle"

\* What a returning Read or Write hands back: the error errch was offering,
\* with count 0 and the data stream untouched, or else what the data stream
\* gives for the call.
ReadWriteResult ==
  LET c == ret'.adp
  IN IF ~ret'.viaData
       THEN /\ Offered(c) # Nil
            /\ ret'.err = Offered(c) /\ ret'.n = 0 /\ ret'.data = <<>>
            /\ dataS' = dataS
       ELSE /\ ret'.op = "Read" =>
                 \E size \in BufSizes :
                   LET r == DataRead(dataS[c], sess[fwd[c]], size)
                   IN ret'.n = r.n /\ ret'.data = r.data /\ ret'.err = r.err
            /\ ret'.op = "Write" =>
                 LET r == DataWrite(dataS[c], sess[fwd[c]], Request)
                 IN ret'.n = r.n /\ ret'.err = r.err

\* A step in which a Read or Write call finds errch empty: it is at the data
\* stream at once, and watchErr is where it was.
ChecksPassOn ==
  \A t \in Threads :
    (tpc[t] = "idle" /\ tpc'[t] \in {"readData", "writeData"}) =>
      Offered(tadp'[t]) = Nil /\ wpc' = wpc /\ dataS' = dataS

\* C14: a Read or Write that receives an error from errch returns 0 and that
\* error and leaves the data stream alone; one that finds nothing offered goes
\* to the data stream, whatever watchErr is doing (a Read can begin whenever the
\* caller is idle), and returns the count and the error of the data stream
\* as they are, io.EOF included.
C14_ReadWriteResult ==
  /\ [][(ReadWriteReturns => ReadWriteResult) /\ ChecksPassOn]_vars
  /\ [](\A c \in ConnCalls :
          (pc[c] = "ok" /\ tpc["t1"] = "idle") => ENABLED ReadCheck("t1", c))

\* A Read that returned io.EOF from the data stream on an adapter on which an
\* earlier call had received the watcher's error.
C14_Witness ==
  /\ ret.op = "Read" /\ ret.viaData
  /\ ret.err = EOF /\ ret.n = 0
  /\ surfaced[ret.adp] = 1

CloseOrder == <<"data.Close", "RemoveStreams", "fwd.Close">>

\* The calls Close has made so far on the connection of adapter c (they come
\* after the three calls of Forward).
CloseOps(c) == SubSeq(LogOps(c), 4, Len(LogOps(c)))

\* C15: the calls of Close on the connection are always a beginning of
\* data.Close, RemoveStreams, fwd.Close; the drain of errch is over before the
\* first of them, and each step of Close finds exactly the earlier ones done.
\* The connection is closed only with the data stream closed and the streams
\* removed.
C15_CloseOrder ==
  \A c \in ConnCalls :
    /\ Len(CloseOps(c)) <= 3
    /\ CloseOps(c) = SubSeq(CloseOrder, 1, Len(CloseOps(c)))
    /\ \A t \in Threads :
         /\ tpc[t] = "closeData" => CloseOps(c) = <<>>
         /\ tpc[t] = "closeRemove" => Len(CloseOps(c)) = 1
         /\ tpc[t] = "closeSess" => Len(CloseOps(c)) = 2
    /\ sess[fwd[c]] = "closed" => dataS[c].closed /\ CloseOps(c) = CloseOrder

\* A Close that drained an error of the watcher and has closed the connection.
C15_Witness ==
  \E c \in ConnCalls :
    /\ ret.op = "Close" /\ ret.adp = c /\ ret.drained # Nil
    /\ sess[fwd[c]] = "closed"
    /\ Len(sessLog[fwd[c]]) = 6

\* C16: whenever watchErr is past io.ReadAll, blocked in a send, and ctx is
\* cancelled, watchErr terminates, whether or not any call ever receives from
\* errch.
C16_CancelEndsWatcher ==
  \A c \in ConnCalls :
    (wpc[c] \in {"sendIO", "sendContent"} /\ ctxDone[c]) ~> (wpc[c] = "done")

\* watchErr has terminated after abandoning both of its sends: the read
\* failed with content read, ctx is cancelled, and no call received anything.
C16_Witness ==
  \E c \in ConnCalls :
    /\ wpc[c] = "done" /\ ctxDone[c]
    /\ errS[c].end = "fail" /\ Len(wbs[c]) > 0
    /\ got[c] = <<>>

\* C17 (as claimed): when the error stream ended with content, watchErr
\* offers the content error; when reading it failed, watchErr offers the read
\* failure and at no time the content error, whatever had been read.
C17_FailureInsteadOfContent ==
  \A c \in ConnCalls :
    wpc[c] \in {"sendIO", "sendContent", "done"} =>
      /\ (errS[c].end = "eof" /\ Len(wbs[c]) > 0) =>
           /\ poison[c] = ErrFromAPIServer(wbs[c])
           /\ wpc[c] # "sendIO"
      /\ errS[c].end = "fail" =>
           /\ poison[c] = ErrReadingErrStream
           /\ wpc[c] # "sendContent"

\* The idle timeout in force for adapter c: that of its connection.
TimeoutInForce(c) == idleTimeout[fwd[c]]

\* A step taken by one of the three deadline setters.
SetterStep == lastSet' # lastSet

\* What a setter leaves alone: everything but the idle timeout of the
\* connection of the adapter it was called on.
SetterFrame ==
  /\ UNCHANGED <<fwdVars, sess, sessLog, streamVars, watchVars, callerVars, ghostVars, now>>
  /\ \A s \in Calls : s # fwd[lastSet'.adp] => idleTimeout'[s] = idleTimeout[s]
  /\ lastSet'.err = Nil

\* C18: a deadline setter changes the idle timeout of the adapter's
\* connection and nothing else, and returns nil; the duration of the most
\* recent call, by any of the three setters and through any adapter, is the
\* timeout in force for every adapter that holds the same connection.
C18_DeadlineIsPerConnection ==
  /\ [][SetterStep => SetterFrame]_vars
  /\ [](lastSet.op # "" =>
          \A c \in Calls :
            (pc[c] = "ok" /\ fwd[c] = fwd[lastSet.adp]) =>
              TimeoutInForce(c) = Until(lastSet.t, lastSet.at))

\* Two adapters on one connection; the most recent deadline, set through
\* the second one by SetReadDeadline after the clock moved, is in force for
\* the first.
C18_Witness ==
  /\ pc[1] = "ok" /\ pc[2] = "ok" /\ fwd[2] = fwd[1]
  /\ lastSet.op = "SetReadDeadline" /\ lastSet.adp = 2
  /\ lastSet.at = 1 /\ lastSet.t = 2
  /\ TimeoutInForce(1) = 1

\* The allocations made on Forwarder f so far.
AllocCount(f) == Cardinality({i \in 1..Len(allocSeq) : allocSeq[i][1] = f})

\* C19 (as claimed): the counter of a Forwarder has advanced once for every
\* Forward call on it that has returned, whichever step the call failed at,
\* and never more than once per call begun.
C19_EveryCallIncrementsOnce ==
  \A f \in Forwarders :
    LET begun == {c \in Calls : pc[c] # "idle" /\ fwOf[c] = f}
        returned == {c \in Calls : pc[c] \in {"ok", "failed"} /\ fwOf[c] = f}
    IN /\ AllocCount(f) <= Cardinality(begun)
       /\ AllocCount(f) >= Cardinality(returned)
       /\ reqID[f] = NthAfter(reqID0[f], AllocCount(f))

\* C19 (amended): the counter of a Forwarder has advanced exactly once for
\* every Forward call on it whose dial succeeded and which has gone past the
\* allocation, whether the call then succeeds or fails at creating either
\* stream; a call whose dial failed has not advanced it.
C19_DialedCallIncrementsOnce ==
  \A f \in Forwarders :
    /\ AllocCount(f) = Cardinality(CallsOn(f))
    /\ reqID[f] = NthAfter(reqID0[f], Cardinality(CallsOn(f)))

\* On one Forwarder, one call failed at creating the error stream and one at
\* creating the data stream: the counter has advanced twice.
C19_Witness ==
  \E c1, c2 \in Calls :
    /\ fwOf[c1] = fwOf[c2] /\ reqID0[fwOf[c1]] = 0
    /\ pc[c1] = "failed" /\ ferr[c1] = "error creating err stream"
    /\ pc[c2] = "failed" /\ ferr[c2] = "error creating data stream"
    /\ reqID[fwOf[c1]] = 2

\* The identifier of the first allocation made on Forwarder f.
FirstAlloc(f) ==
  LET first == CHOOSE i \in 1..Len(allocSeq) :
                 /\ allocSeq[i][1] = f
                 /\ \A j \in 1..(i - 1) : allocSeq[j][1] # f
  IN allocSeq[first][2]

\* A step that changes the counter of Forwarder f is the allocation of a
\* Forward call on f, and it leaves the counter of every other Forwarder.
CounterStep ==
  \A f \in Forwarders :
    reqID'[f] # reqID[f] =>
      /\ \E c \in Calls : pc[c] = "reqid" /\ pc'[c] = "errStream" /\ fwOf[c] = f
      /\ \A g \in Forwarders \ {f} : reqID'[g] = reqID[g]

\* C20: the counter of a Forwarder changes only in Forward calls on that
\* Forwarder, and the first identifier allocated on a Forwarder fresh from
\* NewForwarder is 1, whatever has been allocated on other Forwarders.
C20_CountersPerForwarder ==
  /\ [][CounterStep]_vars
  /\ [](\A f \in Forwarders :
          (reqID0[f] = 0 /\ AllocCount(f) > 0) => FirstAlloc(f) = 1)

\* A long-used Forwarder allocated an identifier, and then a new Forwarder
\* allocated its first one.
C20_Witness ==
  /\ reqID0["fw1"] = MaxInt32 - 1 /\ reqID0["fw2"] = 0
  /\ Len(allocSeq) = 2
  /\ allocSeq[1] = <<"fw1", MaxInt32>>
  /\ allocSeq[2] = <<"fw2", 1>>

\* The errors watchErr sends.
WatcherErrs(c) == {ErrReadingErrStream, ErrFromAPIServer(wbs[c]),
                   ErrFromAPIServer(errS[c].content)}

\* The errors of watchErr among those a returned Close aggregated.
WatcherErrsIn(r) ==
  IF r.err = Nil THEN <<>>
  ELSE SelectSeq(r.err.errs, LAMBDA x : x \in WatcherErrs(r.adp))

\* C21: a Close can begin whatever watchErr is doing, a Close that has begun
\* always returns (watchErr reading, offering or terminated), and the only
\* error of watchErr in its result is the one its drain received: an
\* error offered after the drain is not in it.
C21_CloseNeverWaits ==
  /\ [](\A c \in ConnCalls :
          (pc[c] = "ok" /\ tpc["t1"] = "idle" /\ ~CloseStarted(c)) =>
            ENABLED CloseDrain("t1", c))
  /\ (tpc["t1"] \in ClosePcs) ~> (tpc["t1"] = "idle" /\ ret.op = "Close")
  /\ [](ret.op = "Close" =>
          WatcherErrsIn(ret) = IF ret.drained # Nil THEN <<ret.drained>> ELSE <<>>)

\* A Close whose drain found nothing has returned nil, and watchErr, which
\* came to offer its error only after the drain, is still blocked offering it.
C21_Witness ==
  /\ ret.op = "Close" /\ ret.after = Nil /\ ret.drained = Nil
  /\ ret.err = Nil
  /\ wpc[ret.adp] = "sendContent" /\ got[ret.adp] = <<>>

\* Package-level call c has dialed its connection.
PkgDialed(c) == pc[c] # "idle" /\ ferr[c] # "error dialing for stream"

\* C22: every CreateStream made for a call of the package-level Forward
\* carries the request identifier "1"; the counter of the Forwarder made for
\* the call never goes beyond 1; and two such calls never hold the same
\* connection.
C22_PkgForwardAlwaysOne ==
  /\ \A c \in PkgCalls :
       /\ reqID[PkgForwarder(c)] \in {0, 1}
       /\ HasID(c) => nextID[c] = 1
       /\ PkgDialed(c) =>
            \A i \in 1..Len(sessLog[fwd[c]]) :
              sessLog[fwd[c]][i].op = "CreateStream" =>
                sessLog[fwd[c]][i].hdr.reqid = <<"1">>
  /\ \A c1, c2 \in PkgCalls :
       (c1 # c2 /\ PkgDialed(c1) /\ PkgDialed(c2)) => fwd[c1] # fwd[c2]

\* Two calls of the package-level Forward have both returned a connection,
\* each having created its two streams.
C22_Witness ==
  /\ \A c \in PkgCalls : ppc[c] = "ok" /\ Len(sessLog[fwd[c]]) = 3
  /\ allocSeq = <<<<"fw1", 1>>, <<"fw2", 1>>>>

====
